---- MODULE Spec2Model ----
(***************************************************************************)
(* Model of starlite_sessions/sessions.py: the MiddlewareWrapper that      *)
(* assembles SessionMiddleware(ExceptionHandlerMiddleware(                 *)
(* SessionAuthMiddleware(app))) on invocation, and the decision procedure  *)
(* of SessionAuthMiddleware.authenticate_request.                          *)
(*                                                                         *)
(* A handler (an ASGI app) is the sequence of its layers, outermost first, *)
(* ending with the downstream handler.  A request walks down its handler   *)
(* one layer per step and then unwinds it, carrying either a raised        *)
(* exception or the response that is being sent.                           *)
(***************************************************************************)
EXTENDS Naturals, Sequences, FiniteSets

\* Number of invocations of the wrapper's entry point that are modelled.
MaxCalls == 2

Requests == 1..MaxCalls

----------------------------------------------------------------------------
(* Python values *)

PyNone == [type |-> "NoneType", n |-> 0]
PyBool(b) == [type |-> "bool", n |-> IF b THEN 1 ELSE 0]
PyInt(i) == [type |-> "int", n |-> i]
\* a str, list or dict value is represented by its length
PyStr(len) == [type |-> "str", n |-> len]
PyDict(len) == [type |-> "dict", n |-> len]
NoValue == [type |-> "unset", n |-> 0]

\* bool(value), as Python's truth test computes it
Truthy(value) ==
    CASE value.type = "NoneType" -> FALSE
      [] value.type = "unset" -> FALSE
      [] OTHER -> value.n # 0

\* What a retrieve_user_handler may return.
Users == {PyNone, PyBool(FALSE), PyInt(0), PyStr(0), PyDict(0), PyDict(2), PyInt(7)}

----------------------------------------------------------------------------
(* Session slot values *)

\* starlite.types.Empty, the sentinel
Empty == [type |-> "Empty", items |-> {}]
\* a session dictionary with the given (key, value) pairs
SessionDict(items) == [type |-> "dict", items |-> items]
\* scope has no "session" key
NoSession == [type |-> "unset", items |-> {}]

\* bool(connection.session): a dict is falsy when empty, the sentinel class is truthy
SessionTruthy(session) ==
    CASE session.type = "dict" -> session.items # {}
      [] session.type = "Empty" -> TRUE
      [] OTHER -> FALSE

\* Inbound cookies: none, one that decodes to nothing, one carrying a user id.
NoCookie == [present |-> FALSE, items |-> {}]
Cookie(items) == [present |-> TRUE, items |-> items]
Cookies == {NoCookie, Cookie({}), Cookie({<<"user_id", 42>>})}

Paths == {"/", "/login"}

\* SessionAuthConfig.exclude of the configuration under study: one pattern
ConfigExclude == {"/login"}

----------------------------------------------------------------------------
(* Exceptions and responses *)

NoException == [cls |-> "none", detail |-> ""]
NotAuthorizedException(detail) == [cls |-> "NotAuthorizedException", detail |-> detail]
ResolverError == [cls |-> "ResolverError", detail |-> "resolver failed"]
AssertionError == [cls |-> "AssertionError", detail |-> "SessionMiddleware must be installed"]
\* await of a value that is no awaitable
TypeError == [cls |-> "TypeError", detail |-> "object can't be used in 'await' expression"]

NoResponse == [by |-> "none", exc |-> NoException]
HandlerResponse == [by |-> "downstream", exc |-> NoException]
ErrorResponse(exc) == [by |-> "ExceptionHandlerMiddleware", exc |-> exc]

NoSetCookie == [op |-> "none", items |-> {}]

----------------------------------------------------------------------------
(* Layers and assembly *)

Layer(kind, exclude) == [kind |-> kind, exclude |-> exclude]
Downstream == Layer("downstream", {})

SessionMiddleware(app) == <<Layer("SessionMiddleware", {})>> \o app
ExceptionHandlerMiddleware(app) == <<Layer("ExceptionHandlerMiddleware", {})>> \o app
SessionAuthMiddleware(app, exclude) == <<Layer("SessionAuthMiddleware", exclude)>> \o app

\* the stack without the exception layer
Assemble_NoExceptionLayer(app, exclude) ==
    SessionMiddleware(SessionAuthMiddleware(app, exclude))

\* the stack with the authentication layer outermost
Assemble_AuthOutermost(app, exclude) ==
    SessionAuthMiddleware(SessionMiddleware(ExceptionHandlerMiddleware(app)), exclude)

\* the stack with the exclude patterns not handed to the authentication layer
Assemble_NoExclude(app, exclude) ==
    SessionMiddleware(ExceptionHandlerMiddleware(SessionAuthMiddleware(app, {})))

\* the stack __call__ builds around self.app
Assemble(app, exclude) ==
    SessionMiddleware(ExceptionHandlerMiddleware(SessionAuthMiddleware(app, exclude)))

----------------------------------------------------------------------------
(* The user resolver *)

\* a callback as the application passes it: a plain or a coroutine function;
\* fn_is_async: whether the function that finally runs is a coroutine function
Callback(is_async) == [cls |-> "function", is_async |-> is_async, fn_is_async |-> is_async]
Callbacks == {Callback(FALSE), Callback(TRUE)}

\* starlite.utils.AsyncCallable: calling it yields an awaitable, whatever it wraps
AsyncCallable(fn) == [cls |-> "AsyncCallable", is_async |-> TRUE, fn_is_async |-> fn.fn_is_async]

\* the callback kept as it was passed
validate_retrieve_user_handler_Unwrapped(value) == value

\* SessionAuthConfig.validate_retrieve_user_handler
validate_retrieve_user_handler(value) == AsyncCallable(value)

\* `await handler(session)` can be evaluated: the call yields an awaitable
Awaitable(handler) == handler.is_async

----------------------------------------------------------------------------
(* authenticate_request *)

\* only the sentinel counts as a missing session
SessionMissing_SentinelOnly(session) == session = Empty

\* the test of line 173
SessionMissing(session) == ~SessionTruthy(session) \/ session = Empty

\* an empty dictionary instead of the sentinel
ClearedSession_EmptyDict == SessionDict({})

\* the value lines 175 and 181 assign to scope["session"]
ClearedSession == Empty

\* only None counts as a missing user
UserMissing_NoneOnly(user) == user.type = "NoneType"

\* the test of line 180
UserMissing(user) == ~Truthy(user)

\* the result without the session as its auth
AuthenticationResult_NoAuth(user, auth) == [user |-> user, auth |-> NoSession]

\* line 184
AuthenticationResult(user, auth) == [user |-> user, auth |-> auth]

----------------------------------------------------------------------------
(* Collaborators *)

\* SessionMiddleware: the session mapping a cookie decodes to
Decode(cookie) == IF cookie.present THEN SessionDict(cookie.items) ELSE SessionDict({})

\* SessionMiddleware: what is written to the response for the session slot's value
Encode(session) ==
    IF session = Empty THEN [op |-> "clear", items |-> {}]
    ELSE [op |-> "set", items |-> session.items]

\* AbstractAuthenticationMiddleware: the path matches an exclude pattern
Excluded(path, exclude) == path \in exclude

----------------------------------------------------------------------------
VARIABLES
    app,                       \* MiddlewareWrapper.app
    has_wrapped_middleware,    \* MiddlewareWrapper.has_wrapped_middleware
    config,                    \* MiddlewareWrapper.config (its exclude)
    retrieve_user_handler,     \* MiddlewareWrapper.config.retrieve_user_handler
    assemblies,                \* how many times the stack was built (history)
    req                        \* the requests

vars == <<app, has_wrapped_middleware, config, retrieve_user_handler, assemblies, req>>

IdleRequest ==
    [status |-> "idle", path |-> "/", cookie |-> NoCookie,
     handler |-> <<>>, pos |-> 0,
     session |-> NoSession, user |-> NoValue, auth |-> NoSession,
     raised |-> NoException, pending |-> "none",
     response |-> NoResponse, set_cookie |-> NoSetCookie,
     resolver_arg |-> NoSession, resolved |-> NoValue, resolver_error |-> NoException,
     n_resolver |-> 0, n_handler |-> 0, n_results |-> 0,
     handler_saw |-> AuthenticationResult(NoValue, NoSession),
     log |-> <<>>]

Init ==
    /\ app = <<Downstream>>
    /\ has_wrapped_middleware = FALSE
    /\ config = ConfigExclude
    /\ \E callback \in Callbacks : retrieve_user_handler = validate_retrieve_user_handler(callback)
    /\ assemblies = 0
    /\ req = [r \in Requests |-> IdleRequest]

CurrentLayer(q) == q.handler[q.pos]

\* requests are numbered in the order in which they arrive
MayArrive(r) == req[r].status = "idle" /\ \A s \in Requests : s < r => req[s].status # "idle"

\* MiddlewareWrapper.__call__ up to the delegation of line 135; no await
\* separates the test, the assignment and the read of self.app.
Call(r, path, cookie) ==
    /\ MayArrive(r)
    /\ LET wrapped == IF ~has_wrapped_middleware THEN Assemble(app, config) ELSE app
       IN /\ app' = wrapped
          /\ assemblies' = IF ~has_wrapped_middleware THEN assemblies + 1 ELSE assemblies
          /\ req' = [req EXCEPT ![r] = [@ EXCEPT !.status = "down", !.path = path,
                                                 !.cookie = cookie,
                                                 !.handler = wrapped, !.pos = 1]]
    /\ UNCHANGED <<has_wrapped_middleware, config, retrieve_user_handler>>

\* SessionMiddleware.__call__: decode the cookie into scope["session"], call the inner app
EnterSession(r) ==
    /\ req[r].status = "down"
    /\ CurrentLayer(req[r]).kind = "SessionMiddleware"
    /\ req' = [req EXCEPT ![r] = [@ EXCEPT !.session = Decode(req[r].cookie),
                                           !.pos = @ + 1,
                                           !.log = Append(@, "decode")]]
    /\ UNCHANGED <<app, has_wrapped_middleware, config, retrieve_user_handler, assemblies>>

\* ExceptionHandlerMiddleware.__call__: call the inner app inside try
EnterException(r) ==
    /\ req[r].status = "down"
    /\ CurrentLayer(req[r]).kind = "ExceptionHandlerMiddleware"
    /\ req' = [req EXCEPT ![r] = [@ EXCEPT !.pos = @ + 1]]
    /\ UNCHANGED <<app, has_wrapped_middleware, config, retrieve_user_handler, assemblies>>

\* AbstractAuthenticationMiddleware.__call__ on an excluded path: call the inner app
SkipAuthentication(r) ==
    /\ req[r].status = "down"
    /\ CurrentLayer(req[r]).kind = "SessionAuthMiddleware"
    /\ Excluded(req[r].path, CurrentLayer(req[r]).exclude)
    /\ req' = [req EXCEPT ![r] = [@ EXCEPT !.pos = @ + 1]]
    /\ UNCHANGED <<app, has_wrapped_middleware, config, retrieve_user_handler, assemblies>>

\* the session slot kept on the middleware instance: a failure clears it for every request
AuthenticateRequest_SharedScope(r) ==
    /\ req[r].status = "down"
    /\ CurrentLayer(req[r]).kind = "SessionAuthMiddleware"
    /\ ~Excluded(req[r].path, CurrentLayer(req[r]).exclude)
    /\ req' = [s \in Requests |->
          IF s # r
          THEN IF SessionMissing(req[r].session) /\ req[s].status # "idle"
               THEN [req[s] EXCEPT !.session = ClearedSession]
               ELSE req[s]
          ELSE IF SessionMissing(req[r].session)
          THEN [req[r] EXCEPT !.session = ClearedSession,
                              !.status = "up", !.pending = "error",
                              !.raised = NotAuthorizedException("no session data found"),
                              !.pos = @ - 1, !.log = Append(@, "auth")]
          ELSE [req[r] EXCEPT !.status = "resolving",
                              !.resolver_arg = req[r].session,
                              !.n_resolver = @ + 1,
                              !.log = Append(@, "auth")]]
    /\ UNCHANGED <<app, has_wrapped_middleware, config, retrieve_user_handler, assemblies>>

\* authenticate_request, lines 173-178: up to the await of the resolver
AuthenticateRequest(r) ==
    /\ req[r].status = "down"
    /\ CurrentLayer(req[r]).kind = "SessionAuthMiddleware"
    /\ ~Excluded(req[r].path, CurrentLayer(req[r]).exclude)
    /\ req' = [req EXCEPT ![r] =
          IF @.session = NoSession
          THEN \* connection.session asserts that the scope has a session
               [@ EXCEPT !.status = "up", !.pending = "error", !.raised = AssertionError,
                         !.pos = @ - 1, !.log = Append(@, "auth")]
          ELSE IF SessionMissing(@.session)
          THEN [@ EXCEPT !.session = ClearedSession,
                         !.status = "up", !.pending = "error",
                         !.raised = NotAuthorizedException("no session data found"),
                         !.pos = @ - 1, !.log = Append(@, "auth")]
          ELSE [@ EXCEPT !.status = "resolving",
                         !.resolver_arg = req[r].session,
                         !.n_resolver = @ + 1,
                         !.log = Append(@, "auth")]]
    /\ UNCHANGED <<app, has_wrapped_middleware, config, retrieve_user_handler, assemblies>>

\* the resolved user written into the session on success
ResolverReturns_StoresUser(r, user) ==
    /\ req[r].status = "resolving"
    /\ req' = [req EXCEPT ![r] =
          IF UserMissing(user)
          THEN [@ EXCEPT !.resolved = user,
                         !.session = ClearedSession,
                         !.status = "up", !.pending = "error",
                         !.raised = NotAuthorizedException("no user correlating to session found"),
                         !.pos = @ - 1]
          ELSE LET result == AuthenticationResult(user, req[r].session)
               IN [@ EXCEPT !.resolved = user,
                            !.user = result.user, !.auth = result.auth,
                            !.session = SessionDict(req[r].session.items \cup {<<"user", user.n>>}),
                            !.n_results = @ + 1,
                            !.status = "down", !.pos = @ + 1]]
    /\ UNCHANGED <<app, has_wrapped_middleware, config, retrieve_user_handler, assemblies>>

\* authenticate_request, lines 178-184, and the caller's scope["user"], scope["auth"]
ResolverReturns(r, user) ==
    /\ req[r].status = "resolving"
    /\ req' = [req EXCEPT ![r] =
          IF ~Awaitable(retrieve_user_handler)
          THEN \* the value the call returned cannot be awaited
               [@ EXCEPT !.resolved = user,
                         !.status = "up", !.pending = "error",
                         !.raised = TypeError, !.pos = @ - 1]
          ELSE IF UserMissing(user)
          THEN [@ EXCEPT !.resolved = user,
                         !.session = ClearedSession,
                         !.status = "up", !.pending = "error",
                         !.raised = NotAuthorizedException("no user correlating to session found"),
                         !.pos = @ - 1]
          ELSE LET result == AuthenticationResult(user, req[r].session)
               IN [@ EXCEPT !.resolved = user,
                            !.user = result.user, !.auth = result.auth,
                            !.n_results = @ + 1,
                            !.status = "down", !.pos = @ + 1]]
    /\ UNCHANGED <<app, has_wrapped_middleware, config, retrieve_user_handler, assemblies>>

\* the resolver's exception caught and turned into "no user"
ResolverRaises_AsNoUser(r) ==
    /\ req[r].status = "resolving"
    /\ req' = [req EXCEPT ![r] = [@ EXCEPT !.status = "up", !.pending = "error",
                                           !.resolver_error = ResolverError,
                                           !.session = ClearedSession,
                                           !.raised = NotAuthorizedException("no user correlating to session found"),
                                           !.pos = @ - 1]]
    /\ UNCHANGED <<app, has_wrapped_middleware, config, retrieve_user_handler, assemblies>>

\* the session cleared before the resolver's exception is let through
ResolverRaises_ClearsSession(r) ==
    /\ req[r].status = "resolving"
    /\ req' = [req EXCEPT ![r] = [@ EXCEPT !.status = "up", !.pending = "error",
                                           !.resolver_error = ResolverError,
                                           !.session = ClearedSession,
                                           !.raised = ResolverError, !.pos = @ - 1]]
    /\ UNCHANGED <<app, has_wrapped_middleware, config, retrieve_user_handler, assemblies>>

\* line 178: the resolver raises
ResolverRaises(r) ==
    /\ req[r].status = "resolving"
    /\ req' = [req EXCEPT ![r] = [@ EXCEPT !.status = "up", !.pending = "error",
                                           !.resolver_error = ResolverError,
                                           !.raised = ResolverError, !.pos = @ - 1]]
    /\ UNCHANGED <<app, has_wrapped_middleware, config, retrieve_user_handler, assemblies>>

\* the downstream handler runs and sends its response
InvokeDownstream(r) ==
    /\ req[r].status = "down"
    /\ CurrentLayer(req[r]).kind = "downstream"
    /\ req' = [req EXCEPT ![r] = [@ EXCEPT !.n_handler = @ + 1,
                                           !.handler_saw = AuthenticationResult(req[r].user, req[r].auth),
                                           !.status = "up", !.pending = "response",
                                           !.response = HandlerResponse,
                                           !.pos = @ - 1,
                                           !.log = Append(@, "response")]]
    /\ UNCHANGED <<app, has_wrapped_middleware, config, retrieve_user_handler, assemblies>>

\* an exception or a response passes the authentication layer on its way out
LeaveAuthentication(q) == [q EXCEPT !.pos = @ - 1]

\* ExceptionHandlerMiddleware: an exception becomes a response; a response passes
LeaveException(q) ==
    IF q.pending = "error"
    THEN [q EXCEPT !.pending = "response", !.response = ErrorResponse(q.raised),
                   !.pos = @ - 1, !.log = Append(@, "response")]
    ELSE [q EXCEPT !.pos = @ - 1]

\* SessionMiddleware's send wrapper: a response gets the encoded session slot;
\* an exception passes
LeaveSession(q) ==
    IF q.pending = "response"
    THEN [q EXCEPT !.set_cookie = Encode(q.session),
                   !.pos = @ - 1, !.log = Append(@, "encode")]
    ELSE [q EXCEPT !.pos = @ - 1]

\* the exception or response leaves the enclosing layers, innermost first, until
\* the wrapper's __call__ returns (or raises) to the server
RECURSIVE Propagate(_)
Propagate(q) ==
    IF q.pos = 0 THEN [q EXCEPT !.status = "done"]
    ELSE CASE CurrentLayer(q).kind = "SessionAuthMiddleware" -> Propagate(LeaveAuthentication(q))
           [] CurrentLayer(q).kind = "ExceptionHandlerMiddleware" -> Propagate(LeaveException(q))
           [] CurrentLayer(q).kind = "SessionMiddleware" -> Propagate(LeaveSession(q))

Unwind(r) ==
    /\ req[r].status = "up"
    /\ req' = [req EXCEPT ![r] = Propagate(@)]
    /\ UNCHANGED <<app, has_wrapped_middleware, config, retrieve_user_handler, assemblies>>

Next ==
    \E r \in Requests :
        \/ \E path \in Paths, cookie \in Cookies : Call(r, path, cookie)
        \/ EnterSession(r)
        \/ EnterException(r)
        \/ SkipAuthentication(r)
        \/ AuthenticateRequest(r)
        \/ \E user \in Users : ResolverReturns(r, user)
        \/ ResolverRaises(r)
        \/ InvokeDownstream(r)
        \/ Unwind(r)

Spec == Init /\ [][Next]_vars

----------------------------------------------------------------------------
(* Properties *)

Started(q) == q.status # "idle"
IsDone(q) == q.status = "done"
InFlight(q) == q.status \notin {"idle", "done"}
PathExcluded(q) == Excluded(q.path, config)
Logged(q, event) == \E i \in DOMAIN q.log : q.log[i] = event
\* the request's authentication cannot succeed: it reached an authentication
\* decision with no session data, or its resolver returned a falsy value, or
\* NotAuthorizedException was raised for it
AuthenticationFails(q) ==
    \/ q.raised.cls = "NotAuthorizedException"
    \/ Logged(q, "auth") /\ ~SessionTruthy(Decode(q.cookie))
    \/ q.resolved # NoValue /\ ~Truthy(q.resolved)

\* C1: once two or more invocations of the wrapper have happened, the stack
\* has been assembled exactly once and every invocation was delegated to the
\* same assembled handler.
C1_AssembledExactlyOnce ==
    LET started == {r \in Requests : Started(req[r])}
    IN Cardinality(started) >= 2 =>
          /\ assemblies = 1
          /\ \A r, s \in started : req[r].handler = req[s].handler

\* C2: a request that was authenticated and served has exactly one
\* Authentication Result created for it; a request whose authentication
\* failed has none.
C2_OneResultPerAuthenticatedRequest ==
    \A r \in Requests :
        LET q == req[r]
        IN IsDone(q) /\ ~PathExcluded(q) =>
              /\ q.response = HandlerResponse => q.n_results = 1
              /\ q.raised.cls = "NotAuthorizedException" => q.n_results = 0

C4_FalsyUserFails ==
    \A r \in Requests :
        LET q == req[r]
        IN /\ q.resolved # NoValue /\ ~Truthy(q.resolved) =>
                /\ q.session = Empty
                /\ q.raised = NotAuthorizedException("no user correlating to session found")
                /\ q.user # q.resolved
           /\ q.user # NoValue => Truthy(q.user)
           /\ q.handler_saw.user # NoValue => Truthy(q.handler_saw.user)

C4_Witness ==
    \E r, s \in Requests :
        /\ IsDone(req[r]) /\ req[r].resolved = PyInt(0)
        /\ req[r].raised = NotAuthorizedException("no user correlating to session found")
        /\ req[r].session = Empty
        /\ IsDone(req[s]) /\ req[s].resolved = PyStr(0) /\ req[s].session = Empty

\* C5: when the downstream handler runs for a non-excluded request, it observes
\* the truthy user the resolver returned and, as auth, the non-empty session
\* mapping that was passed to the resolver (the decoded cookie).
C5_HandlerObservesUserAndSession ==
    \A r \in Requests :
        LET q == req[r]
        IN q.n_handler >= 1 /\ ~PathExcluded(q) =>
              /\ q.handler_saw.user = q.resolved
              /\ Truthy(q.resolved)
              /\ q.handler_saw.auth = q.resolver_arg
              /\ q.resolver_arg = SessionDict(q.cookie.items)
              /\ q.cookie.items # {}

C5_Witness ==
    \E r \in Requests :
        /\ IsDone(req[r]) /\ req[r].n_handler = 1 /\ req[r].path = "/"
        /\ req[r].handler_saw = AuthenticationResult(PyDict(2), SessionDict({<<"user_id", 42>>}))

\* C6: a non-excluded request whose authentication fails never has the
\* downstream handler invoked, and ends with the error response the exception
\* layer made of the NotAuthorizedException.
C6_FailureNeverReachesHandler ==
    \A r \in Requests :
        LET q == req[r]
        IN ~PathExcluded(q) /\ AuthenticationFails(q) =>
              /\ q.n_handler = 0
              /\ IsDone(q) =>
                    /\ q.raised.cls = "NotAuthorizedException"
                    /\ q.response = ErrorResponse(q.raised)

\* the first request, on which the stack is assembled, fails; so does a later one
C6_Witness ==
    /\ IsDone(req[1]) /\ req[1].raised.cls = "NotAuthorizedException"
    /\ req[1].response = ErrorResponse(req[1].raised) /\ req[1].n_handler = 0
    /\ IsDone(req[2]) /\ req[2].resolved = PyNone
    /\ req[2].response = ErrorResponse(req[2].raised) /\ req[2].n_handler = 0

\* C7: from the raise of NotAuthorizedException on, the session slot holds
\* Empty in every state, and the finished request's response carries a
\* cookie-clear instruction written by the session layer.
C7_EmptySurvivesToEncode ==
    \A r \in Requests :
        LET q == req[r]
        IN ~PathExcluded(q) /\ AuthenticationFails(q) =>
              /\ q.session = Empty
              /\ IsDone(q) => Logged(q, "encode") /\ q.set_cookie = [op |-> "clear", items |-> {}]

C7_Witness ==
    \E r, s \in Requests :
        /\ IsDone(req[r]) /\ req[r].cookie = NoCookie /\ req[r].session = Empty
        /\ req[r].set_cookie.op = "clear"
        /\ IsDone(req[s]) /\ req[s].resolved = PyBool(FALSE) /\ req[s].session = Empty
        /\ req[s].set_cookie.op = "clear"

\* C8: when two requests are in flight together, the stack has been assembled
\* at most once and every invocation was delegated to the one fully assembled
\* Session -> Exception -> Authentication -> downstream stack.
C8_RacingRequestsAssembleOnce ==
    (\E r, s \in Requests : r # s /\ InFlight(req[r]) /\ InFlight(req[s])) =>
        /\ assemblies <= 1
        /\ \A r \in Requests :
              Started(req[r]) => req[r].handler = Assemble(<<Downstream>>, config)

\* C9: in each request's sequence of events, every authentication decision has
\* a session decode before it and no encode before it, and every encode has the
\* inner pipeline's response before it and nothing but encodes after it; a
\* finished request that has a response ends with an encode.
C9_DecodeAuthEncodeOrder ==
    \A r \in Requests :
        LET q == req[r]
            l == q.log
        IN /\ \A i \in DOMAIN l :
                /\ l[i] = "auth" =>
                      /\ \E j \in 1..(i - 1) : l[j] = "decode"
                      /\ \A j \in 1..(i - 1) : l[j] # "encode"
                /\ l[i] = "encode" =>
                      /\ \E j \in 1..(i - 1) : l[j] = "response"
                      /\ \A j \in (i + 1)..Len(l) : l[j] = "encode"
           /\ IsDone(q) => Len(l) >= 1 /\ l[Len(l)] = "encode"

\* a request served through one stack, and one served through a stack wrapped twice
C9_Witness ==
    \E r, s \in Requests :
        /\ IsDone(req[r]) /\ req[r].n_handler = 1
        /\ req[r].log = <<"decode", "auth", "response", "encode">>
        /\ IsDone(req[s]) /\ req[s].n_handler = 1
        /\ req[s].log = <<"decode", "auth", "decode", "auth", "response", "encode", "encode">>

\* C10: for a request whose path matches the exclude pattern the resolver is
\* not invoked, the session slot is not set to Empty, nothing is raised, and
\* the downstream handler runs and observes no Authentication Result.
C10_ExcludedPathBypassesAuthentication ==
    \A r \in Requests :
        LET q == req[r]
        IN Started(q) /\ PathExcluded(q) =>
              /\ q.n_resolver = 0 /\ q.n_results = 0
              /\ q.session # Empty
              /\ q.raised = NoException
              /\ ~Logged(q, "auth")
              /\ q.n_handler >= 1 => q.handler_saw = AuthenticationResult(NoValue, NoSession)
              /\ IsDone(q) => q.n_handler = 1 /\ q.response = HandlerResponse

C10_Witness ==
    \E r \in Requests :
        /\ IsDone(req[r]) /\ req[r].path = "/login" /\ req[r].cookie = NoCookie
        /\ req[r].n_handler = 1 /\ req[r].n_resolver = 0
        /\ req[r].handler_saw = AuthenticationResult(NoValue, NoSession)

\* C11: when the resolver raises, the exception that leaves authenticate_request
\* is the resolver's own: it is not replaced by NotAuthorizedException, that
\* run creates no Authentication Result, the handler is not invoked, and the
\* exception layer answers with that exception.
C11_ResolverErrorPropagates ==
    \A r \in Requests :
        LET q == req[r]
        IN q.resolver_error # NoException =>
              /\ q.raised = q.resolver_error
              /\ q.status \in {"up", "done"}
              /\ q.n_results + 1 = q.n_resolver
              /\ q.n_handler = 0
              /\ IsDone(q) => q.response = ErrorResponse(q.resolver_error)

C11_Witness ==
    \E r \in Requests :
        /\ IsDone(req[r]) /\ req[r].resolver_error = ResolverError
        /\ req[r].response = ErrorResponse(ResolverError) /\ req[r].n_results = 0

\* C12: a step that changes one request leaves the session slot, the user, the
\* auth and what the handler observed of every other request unchanged.
C12_RequestsDoNotTouchEachOther ==
    [][\A r, s \in Requests :
          r # s /\ req'[r] # req[r] =>
              /\ req'[s].session = req[s].session
              /\ req'[s].user = req[s].user
              /\ req'[s].auth = req[s].auth
              /\ req'[s].handler_saw = req[s].handler_saw]_vars

\* one request has failed and cleared its session while another, authenticated,
\* is in flight with its own session
C12_Witness ==
    \E r, s \in Requests :
        /\ r # s
        /\ req[r].session = Empty /\ req[r].raised.cls = "NotAuthorizedException"
        /\ InFlight(req[s]) /\ req[s].n_results >= 1
        /\ req[s].session = SessionDict({<<"user_id", 42>>})
        /\ req[s].auth = req[s].session /\ req[s].user = PyInt(7)

\* C13: once the wrapper has been invoked, the stored handler is Session,
\* Exception, Authentication, downstream, one of each, and so is the handler
\* every request was delegated to.
C13_StoredHandlerLayeredOnce ==
    LET stack == <<Layer("SessionMiddleware", {}), Layer("ExceptionHandlerMiddleware", {}),
                   Layer("SessionAuthMiddleware", config), Downstream>>
    IN /\ assemblies >= 1 => app = stack
       /\ \A r \in Requests : Started(req[r]) => req[r].handler = stack

\* C14: the session slot of a request only ever holds what the session layer
\* decoded or, after a failed authentication, Empty; after a successful
\* authentication it is the decoded value, and that is what is encoded.
C14_OnlyWriteIsEmptyOnFailure ==
    \A r \in Requests :
        LET q == req[r]
        IN /\ q.session \in {NoSession, Decode(q.cookie), Empty}
           /\ q.session = Empty => q.raised.cls = "NotAuthorizedException"
           /\ q.n_results >= 1 /\ q.raised = NoException => q.session = Decode(q.cookie)
           /\ IsDone(q) /\ q.response = HandlerResponse => q.set_cookie = Encode(Decode(q.cookie))

C14_Witness ==
    \E r \in Requests :
        /\ IsDone(req[r]) /\ req[r].response = HandlerResponse /\ req[r].n_results >= 1
        /\ req[r].session = SessionDict({<<"user_id", 42>>})
        /\ req[r].set_cookie = [op |-> "set", items |-> {<<"user_id", 42>>}]

\* C15: the configured resolver can always be awaited, and the outcome for the
\* value the callback returned is the same for a plain and for a coroutine
\* function: a truthy value is the user of the result, with the session passed
\* as auth; a falsy one clears the session and raises NotAuthorizedException;
\* the await itself never fails.
C15_OutcomeIndependentOfCallbackKind ==
    /\ Awaitable(retrieve_user_handler)
    /\ \A r \in Requests :
          LET q == req[r]
          IN /\ q.raised # TypeError
             /\ q.resolved # NoValue =>
                   IF Truthy(q.resolved)
                   THEN q.user = q.resolved /\ q.auth = q.resolver_arg /\ q.n_results >= 1
                   ELSE /\ q.session = Empty
                        /\ q.raised = NotAuthorizedException("no user correlating to session found")

\* the callback is a plain function: one request is authenticated, one rejected
C15_Witness ==
    /\ ~retrieve_user_handler.fn_is_async
    /\ \E r, s \in Requests :
          /\ IsDone(req[r]) /\ req[r].response = HandlerResponse
          /\ req[r].handler_saw = AuthenticationResult(PyDict(2), SessionDict({<<"user_id", 42>>}))
          /\ IsDone(req[s]) /\ req[s].resolved = PyNone /\ req[s].session = Empty

\* C16: for every request the resolver is invoked at most once, exactly once
\* when the request is finished, not excluded and has session data, and the
\* downstream handler is invoked at most once.
C16_ResolverAndHandlerAtMostOnce ==
    \A r \in Requests :
        LET q == req[r]
        IN /\ q.n_resolver <= 1
           /\ q.n_handler <= 1
           /\ IsDone(q) /\ ~PathExcluded(q) /\ SessionTruthy(Decode(q.cookie)) => q.n_resolver = 1

\* C17: when the resolver has raised, the session slot still holds the session
\* that was passed to it and the response carries that session, not a
\* cookie-clear; the slot is Empty only with one of the two
\* NotAuthorizedExceptions.
C17_ResolverErrorKeepsSession ==
    \A r \in Requests :
        LET q == req[r]
        IN /\ q.resolver_error # NoException =>
                /\ q.session = q.resolver_arg
                /\ q.session # Empty
                /\ IsDone(q) => q.set_cookie = [op |-> "set", items |-> q.cookie.items]
           /\ q.session = Empty =>
                q.raised \in {NotAuthorizedException("no session data found"),
                              NotAuthorizedException("no user correlating to session found")}

C17_Witness ==
    \E r \in Requests :
        /\ IsDone(req[r]) /\ req[r].resolver_error = ResolverError
        /\ req[r].session = SessionDict({<<"user_id", 42>>})
        /\ req[r].set_cookie = [op |-> "set", items |-> {<<"user_id", 42>>}]

\* C18: has_wrapped_middleware is true exactly when the stored handler is an
\* assembled pipeline and not the raw downstream handler.
C18_FlagIffAssembled ==
    has_wrapped_middleware <=> app # <<Downstream>>

====
